---- MODULE Spec2Model ----
(***************************************************************************)
(* A model of task_manager.py: the Task entity, the TaskManager store, its *)
(* JSON snapshot tasks.json and the menu loop of TaskManager.run.          *)
(*                                                                         *)
(* Strings that the program converts (the due date, which is formatted by  *)
(* str(datetime) and read back by dateutil's parse, and the priority,      *)
(* which is compared as a Python str when sorting) are sequences of        *)
(* one-character strings.  Titles are never converted and stay opaque.     *)
(* Typed strings are over Chars; a due date carries no microseconds.       *)
(***************************************************************************)
EXTENDS Integers, Sequences, FiniteSets, TLC

\* ------------------------------------------------------------------ bounds
\* Number of menu selections other than 'View tasks' made in one run.
MaxSteps == 5
\* Largest id the user types at the complete / delete prompts.
MaxIdInput == 1

\* ------------------------------------------------------------- characters
Digits == <<"0", "1", "2", "3", "4", "5", "6", "7", "8", "9">>

\* The characters of the modelled strings in code point order.
Chars == <<" ", "+", "-", "/", "0", "1", "2", "3", "4", "5", "6", "7", "8", "9", ":">>

Has(seq, c) == \E n \in DOMAIN seq : seq[n] = c

Index(seq, c) == CHOOSE n \in DOMAIN seq : seq[n] = c

\* str.isdigit() on one character.
IsDigit(c) == Has(Digits, c)

\* int() of one digit character.
DigitOf(c) == Index(Digits, c) - 1

\* The rank of a character in code point order.
Ord(c) == Index(Chars, c)

\* Python's < on str: lexicographic by code point, a proper prefix is smaller.
RECURSIVE StrLess(_, _)
StrLess(a, b) ==
    IF b = <<>> THEN FALSE
    ELSE IF a = <<>> THEN TRUE
    ELSE IF Head(a) # Head(b) THEN Ord(Head(a)) < Ord(Head(b))
    ELSE StrLess(Tail(a), Tail(b))

\* ---------------------------------------------------------------- datetime
Pow10(k) == CASE k = 0 -> 1 [] k = 1 -> 10 [] k = 2 -> 100 [] k = 3 -> 1000

\* n as w zero-padded decimal digits.
Pad(n, w) == [i \in 1..w |-> Digits[((n \div Pow10(w - i)) % 10) + 1]]

\* The date of datetime.now() when parse is called; parse takes from it the
\* fields the string leaves out and the century of a two-digit year.
Today == [year |-> 2026, month |-> 10, day |-> 29]

\* A field that has not been set.
None == -1

\* tzinfo: none for a naive datetime, else a fixed offset from UTC, held as
\* timedelta holds it: days and 0 <= seconds < 86400.
Naive == [aware |-> FALSE, days |-> 0, seconds |-> 0]

tzoffset(days, seconds) == [aware |-> TRUE, days |-> days, seconds |-> seconds]

\* datetime.utcoffset() accepts an offset strictly between -1 and 1 day.
OffsetInRange(tz) == tz.days = 0 \/ (tz.days = -1 /\ tz.seconds > 0)

\* str(datetime) raises ValueError for an aware datetime whose offset
\* utcoffset() does not accept.
StrRaises(dt) == dt.tzinfo.aware /\ ~OffsetInRange(dt.tzinfo)

OffsetSeconds(tz) == tz.days * 86400 + tz.seconds

\* The "+HH:MM" that isoformat appends for an aware datetime.
format_offset(tz) ==
    LET off == OffsetSeconds(tz)
        a   == IF off < 0 THEN -off ELSE off
    IN <<IF off < 0 THEN "-" ELSE "+">> \o Pad(a \div 3600, 2) \o <<":">>
       \o Pad((a % 3600) \div 60, 2)

\* str(datetime): isoformat with a space separator, "YYYY-MM-DD HH:MM:SS",
\* followed by the offset when the datetime is aware.
format_datetime(dt) ==
    Pad(dt.year, 4) \o <<"-">> \o Pad(dt.month, 2) \o <<"-">> \o Pad(dt.day, 2)
    \o <<" ">> \o Pad(dt.hour, 2) \o <<":">> \o Pad(dt.minute, 2)
    \o <<":">> \o Pad(dt.second, 2)
    \o (IF dt.tzinfo.aware THEN format_offset(dt.tzinfo) ELSE <<>>)

IsLeap(y) == (y % 4 = 0 /\ y % 100 # 0) \/ y % 400 = 0

DaysInMonth(y, m) ==
    IF m = 2 THEN (IF IsLeap(y) THEN 29 ELSE 28)
    ELSE IF m \in {4, 6, 9, 11} THEN 30 ELSE 31

\* The range checks of datetime.replace.
ValidDate(dt) ==
    /\ dt.year \in 1..9999
    /\ dt.month \in 1..12
    /\ dt.day \in 1..DaysInMonth(dt.year, dt.month)
    /\ dt.hour \in 0..23 /\ dt.minute \in 0..59 /\ dt.second \in 0..59

\* ------------------------------------------------- dateutil.parser: tokens
\* The first position of seq that is in the set at, Len(seq) + 1 when at is empty.
First(seq, at) ==
    IF at = {} THEN Len(seq) + 1 ELSE CHOOSE n \in at : \A k \in at : n <= k

\* _timelex.split on a string over Chars: every run of digits is one token,
\* every other character a token of its own.  DigitRun: the length of the
\* run of digits s starts with.
DigitRun(s) == First(s, {n \in DOMAIN s : ~IsDigit(s[n])}) - 1

RECURSIVE split(_)
split(s) ==
    IF s = <<>> THEN <<>>
    ELSE IF IsDigit(Head(s))
    THEN LET n == DigitRun(s) IN <<SubSeq(s, 1, n)>> \o split(SubSeq(s, n + 1, Len(s)))
    ELSE <<<<Head(s)>>>> \o split(Tail(s))

IsNumber(tok) == tok # <<>> /\ IsDigit(tok[1])

\* parserinfo.jump, on the tokens that are not numbers.
Jump(tok) == tok \in {<<" ">>, <<"-">>, <<"/">>}

\* The digits of a number without its leading zeros.
Strip(tok) == SubSeq(tok, First(tok, {n \in DOMAIN tok : tok[n] # "0"}), Len(tok))

\* The value of at most nine digits.
RECURSIVE Value(_)
Value(d) ==
    IF d = <<>> THEN 0
    ELSE Value(SubSeq(d, 1, Len(d) - 1)) * 10 + DigitOf(d[Len(d)])

\* The value of a digit string of any length.  The parser compares a number
\* with small constants, and datetime.replace asks whether a C int holds it;
\* so a value of 10^9 or more is kept as one of two: Held (a C int holds it)
\* or Unheld.
Held == 1000000000

Unheld == 2000000000

\* hi * 10^5 + lo is at most INT_MAX = 2147483647.
FitsInt(hi, lo) == hi < 21474 \/ (hi = 21474 /\ lo <= 83647)

\* int(Decimal(d)) for digits d without leading zeros.
Kept(d) ==
    IF Len(d) <= 9 THEN Value(d)
    ELSE IF Len(d) = 10 /\ FitsInt(Value(SubSeq(d, 1, 5)), Value(SubSeq(d, 6, 10))) THEN Held
    ELSE Unheld

\* int(_to_decimal(token)): a Decimal converts whatever its length.
int_decimal(tok) == Kept(Strip(tok))

\* sys.get_int_max_str_digits(): int(str) raises ValueError for a string of
\* more characters, leading zeros counted.
MaxStrDigits == 4300

IntRaises(tok) == Len(tok) > MaxStrDigits

\* int(str) raised ValueError.
Refused == -2

\* int(token) on the str itself.
to_int(tok) == IF IntRaises(tok) THEN Refused ELSE Kept(Strip(tok))

\* int(token[a:b]), positions counted from 1 and b included.
sub(tok, a, b) == to_int(SubSeq(tok, a, b))

\* ------------------------------------------- dateutil.parser: UTC offsets
\* The offset of a "+HH:MM" or "-HH" suffix, sign * (hours * 3600 +
\* minutes * 60) seconds, as timedelta(seconds=...) normalises it.  hours and
\* minutes are digit tokens of any length, so the sum is formed in two
\* parts, hi * Limb + lo minutes.  over: timedelta raises OverflowError
\* (more than 999999999 days either way); refused: int() of hours or of
\* minutes raised ValueError.
Limb == 1000000

TooLong(tok) == Len(Strip(tok)) > 13

Limbs(d) ==
    IF Len(d) <= 6 THEN [hi |-> 0, lo |-> Value(d)]
    ELSE [hi |-> Value(SubSeq(d, 1, Len(d) - 6)),
          lo |-> Value(SubSeq(d, Len(d) - 5, Len(d)))]

NoOffset ==
    [set |-> FALSE, over |-> FALSE, refused |-> FALSE, days |-> 0, seconds |-> 0]

Offset(days, seconds) == [NoOffset EXCEPT !.set = TRUE, !.days = days, !.seconds = seconds]

OffsetOver == [NoOffset EXCEPT !.set = TRUE, !.over = TRUE]

OffsetRefused == [NoOffset EXCEPT !.refused = TRUE]

\* hours * 60 + minutes, in limbs.
Minutes(h, m) ==
    [hi |-> 60 * h.hi + m.hi + (60 * h.lo + m.lo) \div Limb,
     lo |-> (60 * h.lo + m.lo) % Limb]

\* timedelta(seconds=sign * 60 * (q * 1440 + r)), 0 <= r < 1440.
Days(sign, q, r) ==
    IF sign = 1 THEN Offset(q, r * 60)
    ELSE IF r = 0 THEN Offset(-q, 0)
    ELSE IF q + 1 > 999999999 THEN OffsetOver
    ELSE Offset(-(q + 1), (1440 - r) * 60)

Signed(sign, m) ==
    IF m.hi >= 1440000 THEN OffsetOver
    ELSE Days(sign,
              (m.hi \div 1440) * Limb + ((m.hi % 1440) * Limb + m.lo) \div 1440,
              ((m.hi % 1440) * Limb + m.lo) % 1440)

TzOffset(sign, hours, minutes) ==
    IF IntRaises(hours) \/ IntRaises(minutes) THEN OffsetRefused
    ELSE IF TooLong(hours) \/ TooLong(minutes) THEN OffsetOver
    ELSE Signed(sign, Minutes(Limbs(Strip(hours)), Limbs(Strip(minutes))))

\* ------------------------------------------ dateutil.parser: parser state
\* _result and _ymd while the tokens are read.  ystridx is the position in
\* ymd of the value known to be the year, 0 when there is none; error is the
\* exception that ended the parse, "" while there is none.
NewResult ==
    [ymd |-> <<>>, ystridx |-> 0, century_specified |-> FALSE,
     hour |-> None, minute |-> None, second |-> None, tzoffset |-> NoOffset,
     error |-> ""]

Fail(st, error) == IF st.error # "" THEN st ELSE [st EXCEPT !.error = error]

\* _ymd.append of the value v.  long: a digit string of more than two
\* characters or a number above 100, which can only be a year.
AppendYmd(st, v, long, label) ==
    IF st.error # "" THEN st
    ELSE IF (long \/ label = "Y") /\ st.ystridx # 0 THEN Fail(st, "ParserError")
    ELSE [st EXCEPT !.ymd = Append(@, v),
                    !.century_specified = @ \/ long,
                    !.ystridx = IF long \/ label = "Y" THEN Len(st.ymd) + 1 ELSE @]

\* _ymd.append(token): int(token) raises ValueError unless it is a number
\* of at most MaxStrDigits characters.
append_token(st, tok, label) ==
    IF ~IsNumber(tok) \/ IntRaises(tok) THEN Fail(st, "ParserError")
    ELSE AppendYmd(st, to_int(tok), Len(tok) > 2, label)

\* _ymd.append(Decimal).
append_value(st, v) == AppendYmd(st, v, v > 100, "")

\* _ymd.could_be_day; no token of these strings names a month or a day.
could_be_day(v) == v \in 1..31

\* _ymd.append of three tokens, the first labelled.
append_tokens(st, a, label, b, c) ==
    append_token(append_token(append_token(st, a, label), b, ""), c, "")

\* The HHMM[SS] that follows YYYYMMDD in a token of 12 or 14 digits.
with_time(st, tok) ==
    IF st.error # "" \/ Len(tok) = 8 THEN st
    ELSE [st EXCEPT !.hour = sub(tok, 9, 10), !.minute = sub(tok, 11, 12),
                    !.second = IF Len(tok) = 14 THEN sub(tok, 13, 14) ELSE @]

\* The [:SS] that may follow HH:MM at position i; st holds hour and minute.
with_seconds(l, i, st) ==
    IF i + 4 <= Len(l) /\ l[i + 3] = <<":">>
    THEN IF ~IsNumber(l[i + 4]) \/ IntRaises(l[i + 4])
         THEN [st |-> Fail(st, "ParserError"), idx |-> i]
         ELSE [st |-> [st EXCEPT !.second = to_int(l[i + 4])], idx |-> i + 4]
    ELSE [st |-> st, idx |-> i + 2]

\* The [-01] that may follow 01-01 at position i; st holds both values.
with_third(l, i, st) ==
    IF i + 3 <= Len(l) /\ l[i + 3] = l[i + 1]
    THEN IF i + 4 > Len(l) THEN [st |-> Fail(st, "ParserError"), idx |-> i]
         ELSE [st |-> append_token(st, l[i + 4], ""), idx |-> i + 4]
    ELSE [st |-> st, idx |-> i + 2]

\* _parse_numeric_token for the number at position i of the tokens l: the
\* state it leaves and the position of the last token it used.
parse_numeric_token(l, i, st) ==
    LET tok == l[i]
        n   == Len(tok)
        L   == Len(l)
    IN
    IF Len(st.ymd) = 3 /\ n \in {2, 4} /\ st.hour = None
       /\ (i = L \/ l[i + 1] # <<":">>)
    THEN \* 19990101T23[59]
         [st |-> [st EXCEPT !.hour = sub(tok, 1, 2),
                            !.minute = IF n = 4 THEN sub(tok, 3, 4) ELSE @],
          idx |-> i]
    ELSE IF n = 6
    THEN IF st.ymd = <<>>
         THEN \* YYMMDD
              [st |-> append_tokens(st, SubSeq(tok, 1, 2), "", SubSeq(tok, 3, 4),
                                    SubSeq(tok, 5, 6)),
               idx |-> i]
         ELSE \* HHMMSS
              [st |-> [st EXCEPT !.hour = sub(tok, 1, 2), !.minute = sub(tok, 3, 4),
                                 !.second = sub(tok, 5, 6)],
               idx |-> i]
    ELSE IF n \in {8, 12, 14}
    THEN \* YYYYMMDD[HHMM[SS]]
         [st |-> with_time(append_tokens(st, SubSeq(tok, 1, 4), "Y", SubSeq(tok, 5, 6),
                                         SubSeq(tok, 7, 8)),
                           tok),
          idx |-> i]
    ELSE IF i + 2 <= L /\ l[i + 1] = <<":">>
    THEN \* HH:MM[:SS]
         IF ~IsNumber(l[i + 2]) THEN [st |-> Fail(st, "ParserError"), idx |-> i]
         ELSE IF Len(Strip(l[i + 2])) > 28
         THEN \* Decimal % 1 beyond the precision of the context
              [st |-> Fail(st, "InvalidOperation"), idx |-> i]
         ELSE with_seconds(l, i, [st EXCEPT !.hour = int_decimal(tok),
                                            !.minute = int_decimal(l[i + 2]),
                                            !.second = None])
    ELSE IF i < L /\ l[i + 1] \in {<<"-">>, <<"/">>}
    THEN \* 01-01[-01]
         IF i + 2 <= L /\ ~Jump(l[i + 2])
         THEN with_third(l, i, append_token(append_token(st, tok, ""), l[i + 2], ""))
         ELSE [st |-> append_token(st, tok, ""), idx |-> i + 1]
    ELSE IF i = L \/ Jump(l[i + 1])
    THEN \* year, month or day
         [st |-> append_value(st, int_decimal(tok)), idx |-> i + 1]
    ELSE IF could_be_day(int_decimal(tok))
    THEN [st |-> append_value(st, int_decimal(tok)), idx |-> i]
    ELSE [st |-> Fail(st, "ParserError"), idx |-> i]

\* res.tzoffset = signal * (hour_offset * 3600 + min_offset * 60) with the
\* offset off, idx being the last token used, unless int() raised.
with_offset(st, off, i, idx) ==
    IF off.refused THEN [st |-> Fail(st, "ParserError"), idx |-> i]
    ELSE [st |-> [st EXCEPT !.tzoffset = off], idx |-> idx]

\* The branch of _parse for a sign that follows a time of day: a numbered
\* time zone, "-0300", "-03:00" or "-3".
parse_tzoffset(l, i, st) ==
    LET L    == Len(l)
        sign == IF l[i] = <<"+">> THEN 1 ELSE -1
    IN
    IF i = L THEN [st |-> Fail(st, "ParserError"), idx |-> i]
    ELSE IF Len(l[i + 1]) = 4
    THEN with_offset(st, TzOffset(sign, SubSeq(l[i + 1], 1, 2), SubSeq(l[i + 1], 3, 4)),
                     i, i + 1)
    ELSE IF i + 2 <= L /\ l[i + 2] = <<":">>
    THEN IF ~IsNumber(l[i + 1]) \/ i + 3 > L THEN [st |-> Fail(st, "ParserError"), idx |-> i]
         ELSE IF ~IsNumber(l[i + 3]) THEN [st |-> Fail(st, "ParserError"), idx |-> i]
         ELSE with_offset(st, TzOffset(sign, l[i + 1], l[i + 3]), i, i + 3)
    ELSE IF Len(l[i + 1]) <= 2
    THEN IF ~IsNumber(l[i + 1]) THEN [st |-> Fail(st, "ParserError"), idx |-> i]
         ELSE with_offset(st, TzOffset(sign, l[i + 1], <<"0">>), i, i + 1)
    ELSE [st |-> Fail(st, "ParserError"), idx |-> i]

\* The loop of parser._parse over the tokens, from position i; advance is
\* its i += 1 after the branch that left r.
RECURSIVE parse_tokens(_, _, _)
advance(l, r) == parse_tokens(l, r.idx + 1, r.st)

parse_tokens(l, i, st) ==
    IF st.error # "" \/ i > Len(l) THEN st
    ELSE IF IsNumber(l[i]) THEN advance(l, parse_numeric_token(l, i, st))
    ELSE IF st.hour # None /\ l[i] \in {<<"+">>, <<"-">>}
    THEN advance(l, parse_tzoffset(l, i, st))
    ELSE IF ~Jump(l[i]) THEN Fail(st, "ParserError")
    ELSE parse_tokens(l, i + 1, st)

\* _ymd.resolve_ymd with dayfirst and yearfirst off and no month name.
resolve_ymd(st) ==
    LET y == st.ymd
        n == Len(y)
        ymd(year, month, day) == [error |-> "", year |-> year, month |-> month, day |-> day]
    IN
    IF st.error # "" THEN [error |-> st.error, year |-> None, month |-> None, day |-> None]
    ELSE IF n = 1 /\ st.ystridx # 0 THEN ymd(y[1], None, None)
    ELSE IF n > 3 THEN [error |-> "ParserError", year |-> None, month |-> None, day |-> None]
    ELSE IF n = 0 THEN ymd(None, None, None)
    ELSE IF n = 1 THEN (IF y[1] > 31 THEN ymd(y[1], None, None) ELSE ymd(None, None, y[1]))
    ELSE IF n = 2
    THEN IF y[1] > 31 THEN ymd(y[1], y[2], None)
         ELSE IF y[2] > 31 THEN ymd(y[2], y[1], None)
         ELSE ymd(None, y[1], y[2])
    ELSE IF y[1] > 31 \/ st.ystridx = 1 THEN ymd(y[1], y[2], y[3])
    ELSE IF y[1] > 12 THEN ymd(y[3], y[2], y[1])
    ELSE ymd(y[3], y[1], y[2])

\* parserinfo.convertyear: a year below 100 whose century was not written
\* is taken within fifty years of the current one.
convertyear(year, century_specified) ==
    IF year < 100 /\ ~century_specified
    THEN LET y == year + (Today.year \div 100) * 100 IN
         IF y >= Today.year + 50 THEN y - 100
         ELSE IF y < Today.year - 50 THEN y + 100
         ELSE y
    ELSE year

\* dateutil.parser.parse: ok with the datetime, or the exception raised.
NoDate ==
    [year |-> 0, month |-> 0, day |-> 0, hour |-> 0, minute |-> 0, second |-> 0,
     tzinfo |-> Naive]

Raised(error) == [ok |-> FALSE, error |-> error, value |-> NoDate]

\* The day _build_naive takes when the string names none: today's, or the
\* last of the month when the month is shorter.
default_day(year, month) ==
    IF month \in 1..12 /\ Today.day > DaysInMonth(year, month)
    THEN DaysInMonth(year, month)
    ELSE Today.day

field(v, default) == IF v = None THEN default ELSE v

\* The fields _build_naive hands to default.replace and the tzinfo of
\* _build_tzaware; day is None when the string names none.
replacement(st, found) ==
    [year   |-> IF found.year = None THEN Today.year
                ELSE convertyear(found.year, st.century_specified),
     month  |-> field(found.month, Today.month),
     day    |-> found.day,
     hour   |-> field(st.hour, 0),
     minute |-> field(st.minute, 0),
     second |-> field(st.second, 0),
     tzinfo |-> IF st.tzoffset.set THEN tzoffset(st.tzoffset.days, st.tzoffset.seconds)
                ELSE Naive]

\* default.replace(**repl) and the offset: the datetime, or the exception.
replace(st, found, repl, day) ==
    IF /\ found.year = None /\ found.month = None /\ found.day = None
       /\ st.hour = None /\ st.minute = None /\ st.second = None
       /\ ~st.tzoffset.set
    THEN Raised("ParserError")    \* String does not contain a date
    ELSE IF found.day = None /\ repl.month \notin 1..12
    THEN Raised("ParserError")    \* monthrange: bad month number
    ELSE IF \E v \in {repl.year, repl.month, day, repl.hour, repl.minute, repl.second} :
              v >= Unheld
    THEN Raised("OverflowError")
    ELSE IF ~ValidDate([repl EXCEPT !.day = day]) THEN Raised("ParserError")
    ELSE IF st.tzoffset.over THEN Raised("OverflowError")
    ELSE [ok |-> TRUE, error |-> "", value |-> [repl EXCEPT !.day = day]]

\* parser._build_naive and _build_tzaware on what _parse found.
build_naive(st, found, repl) ==
    replace(st, found, repl,
            IF found.day = None THEN default_day(repl.year, repl.month) ELSE found.day)

build(st, found) ==
    IF found.error # "" THEN Raised(found.error)
    ELSE build_naive(st, found, replacement(st, found))

\* parser._parse: the tokens are read, then the year, month and day resolved.
resolved(st) == build(st, resolve_ymd(st))

\* parse is defined on the strings over Chars.
parse_string(s) ==
    CASE \A i \in 1..Len(s) : Has(Chars, s[i]) ->
        resolved(parse_tokens(split(s), 1, NewResult))

\* ------------------------------------------------------------ date strings
\* The due dates the user types: a date without leading zeros, a date with a
\* time of day, a day that does not exist, a date with a UTC offset, one
\* whose offset is thirty hours, and a date whose year is written with so
\* many leading zeros that int() refuses the token.
D_2025_1_1 == <<"2", "0", "2", "5", "-", "1", "-", "1">>

D_2025_02_01_0930 ==
    <<"2", "0", "2", "5", "-", "0", "2", "-", "0", "1", " ", "0", "9", ":", "3", "0">>

D_2025_02_30 == <<"2", "0", "2", "5", "-", "0", "2", "-", "3", "0">>

D_2025_01_15_1200_plus_02 ==
    <<"2", "0", "2", "5", "-", "0", "1", "-", "1", "5", " ", "1", "2", ":", "0", "0", "+", "0", "2">>

D_2025_01_01_09_minus_30 ==
    <<"2", "0", "2", "5", "-", "0", "1", "-", "0", "1", " ", "0", "9", "-", "3", "0">>

D_zeros_2025_01_01 ==
    [i \in 1..(MaxStrDigits - 3) |-> "0"]
    \o <<"2", "0", "2", "5", "-", "0", "1", "-", "0", "1">>

DateInputs ==
    {D_2025_1_1, D_2025_02_01_0930, D_2025_02_30, D_2025_01_15_1200_plus_02,
     D_2025_01_01_09_minus_30, D_zeros_2025_01_01}

\* The conversions above, tabulated once for the strings and datetimes that
\* occur in a run; any other argument is converted directly.
Range(f) == {f[x] : x \in DOMAIN f}

Tabulated(table, x, direct) == IF x \in DOMAIN table THEN table[x] ELSE direct

KnownDates ==
    {r.value : r \in {q \in {parse_string(s) : s \in DateInputs} :
                        q.ok /\ ~StrRaises(q.value)}}

FormatTable == [dt \in KnownDates |-> format_datetime(dt)]

KnownStrings == DateInputs \cup Range(FormatTable)

ParseTable == [s \in KnownStrings |-> parse_string(s)]

\* A variant that writes the date without the time of day.
str_datetime_date_only(dt) == SubSeq(format_datetime(dt), 1, 10)

str_datetime(dt) == Tabulated(FormatTable, dt, format_datetime(dt))

parse(s) == Tabulated(ParseTable, s, parse_string(s))

\* The number of the day, counted from 0001-01-01 (date.toordinal).
DaysBeforeMonth(y, m) ==
    LET d == <<0, 31, 59, 90, 120, 151, 181, 212, 243, 273, 304, 334>> IN
    d[m] + (IF m > 2 /\ IsLeap(y) THEN 1 ELSE 0)

toordinal(dt) ==
    LET y == dt.year - 1 IN
    y * 365 + y \div 4 - y \div 100 + y \div 400 + DaysBeforeMonth(dt.year, dt.month) + dt.day

\* The instant of a datetime, as <<day, second of the day>>: the wall clock
\* for a naive datetime, UTC for an aware one.
Instant(dt) ==
    LET s == dt.hour * 3600 + dt.minute * 60 + dt.second
             - (IF dt.tzinfo.aware THEN OffsetSeconds(dt.tzinfo) ELSE 0) + 86400
    IN <<toordinal(dt) - 1 + s \div 86400, s % 86400>>

\* datetime.__lt__ raises TypeError for a naive and an aware datetime.
Comparable(a, b) == a.tzinfo.aware = b.tzinfo.aware

\* datetime.__eq__: never equal when only one of the two is aware.
DateEq(a, b) == Comparable(a, b) /\ Instant(a) = Instant(b)

\* datetime.__lt__ on two naive or two aware datetimes.
Earlier(ia, ib) == ia[1] < ib[1] \/ (ia[1] = ib[1] /\ ia[2] < ib[2])

DateLess(a, b) == Earlier(Instant(a), Instant(b))

\* -------------------------------------------------------------------- Task
\* Task.__init__: the fields and the dictionary cached at construction.
Task(id, title, due_date, priority, complete, saved) ==
    [id |-> id, title |-> title, due_date |-> due_date, priority |-> priority,
     complete |-> complete, saved |-> saved,
     dict |-> [id |-> id, title |-> title, due_date |-> str_datetime(due_date),
               priority |-> priority, complete |-> complete]]

\* A variant of the setter that leaves the cached dict as it was.
SetComplete_stale_dict(t, completed) ==
    [t EXCEPT !.complete = completed]

\* The complete setter: stores the flag and writes True into the cached dict.
SetComplete(t, completed) ==
    [t EXCEPT !.complete = completed, !.dict.complete = TRUE]

\* tasks.json: absent, or the JSON array it holds.
NoFile == [exists |-> FALSE, data |-> <<>>]

File(data) == [exists |-> TRUE, data |-> data]

\* A variant of to_json that replaces the array instead of extending it.
to_json_overwrites(f, t) == File(<<t.dict>>)

\* Task.to_json: append the cached dict to the array in the file.
to_json(f, t) ==
    File((IF f.exists THEN f.data ELSE <<>>) \o <<t.dict>>)

\* ------------------------------------------------------------- user input
\* What the user types at the three prompts of add_task: a task that is
\* added, two dates parse rejects (the day does not exist, the year has more
\* than MaxStrDigits digits), and a date that parse accepts and str()
\* refuses.
AddInputs ==
    { [title |-> "Call dentist", due_date |-> D_2025_1_1, priority |-> <<"1", "0">>],
      [title |-> "Pay rent", due_date |-> D_2025_02_30, priority |-> <<"1">>],
      [title |-> "Renew passport", due_date |-> D_zeros_2025_01_01, priority |-> <<"3">>],
      [title |-> "Book flight", due_date |-> D_2025_01_01_09_minus_30, priority |-> <<"2">>] }

\* The same, a second task that is added, and a task whose due date carries
\* a UTC offset.
DirectAddInputs ==
    AddInputs \cup
    { [title |-> "Pay rent", due_date |-> D_2025_02_01_0930, priority |-> <<"2">>],
      [title |-> "Book flight", due_date |-> D_2025_01_15_1200_plus_02, priority |-> <<"2">>] }

\* The ids typed at the prompts of complete_task and remove_task.
IdInputs == 0..MaxIdInput

\* Answers to "Would you like to sort the tasks?" and the sorting option:
\* no sorting, by due date, by priority, an option that does not exist.
SortInputs ==
    { [sort |-> "n", choice |-> ""], [sort |-> "y", choice |-> "1"],
      [sort |-> "y", choice |-> "2"], [sort |-> "y", choice |-> "3"] }

\* Answers to "Save before loading new tasks?".
Answers == {"y", "n"}

\* A menu selection that is not one of '1'..'8'.
InvalidChoices == {"9"}

\* tasks.json as the program finds it when it starts.
Entry(id, title, due, priority, complete) ==
    [id |-> id, title |-> title, due_date |-> due, priority |-> priority,
     complete |-> complete]

\* "2025-02-01 09:30:00", a due date as save_tasks wrote it.
S_2025_02_01_093000 ==
    <<"2", "0", "2", "5", "-", "0", "2", "-", "0", "1", " ", "0", "9", ":", "3", "0", ":",
      "0", "0">>

InitialFiles ==
    { NoFile,
      File(<<>>),
      File(<<Entry(0, "Buy milk", S_2025_02_01_093000, <<"3">>, FALSE)>>) }

\* ------------------------------------------------------------------- state
VARIABLES
    pc,              \* "start", "menu" (waiting for a selection), "crashed", "exited"
    tasks,           \* TaskManager.tasks
    next_id,         \* TaskManager.next_id
    previous_state,  \* TaskManager.previous_state: the chain of deep copies, newest first
    file,            \* tasks.json
    msg,             \* the lines the last command printed; an exception that ends the run is last
    shown,           \* the rows of the last table print_tasks printed
    log,             \* the selections made so far other than 'View tasks', each
                     \* with the store it found
    viewed           \* the same for a 'View tasks' that was the last selection

vars == <<pc, tasks, next_id, previous_state, file, msg, shown, log, viewed>>

\* TaskManager.__init__, before run() is called.
Init ==
    /\ pc = "start"
    /\ tasks = <<>>
    /\ next_id = 0
    /\ previous_state = <<>>
    /\ file \in InitialFiles
    /\ msg = <<>>
    /\ shown = <<>>
    /\ log = <<>>
    /\ viewed = <<>>

\* ---------------------------------------------------------------- start-up
RECURSIVE MaxOf(_)
MaxOf(ids) ==
    IF Len(ids) = 1 THEN ids[1]
    ELSE LET m == MaxOf(Tail(ids)) IN IF ids[1] > m THEN ids[1] ELSE m

\* TaskManager.get_next_id.  The finally block runs on every path: it reads
\* file_data, unbound when the file is absent, and max_id, unbound when the
\* array is empty; both raise UnboundLocalError out of the function.
get_next_id(f) ==
    IF ~f.exists THEN [raised |-> TRUE, value |-> 0]
    ELSE IF f.data = <<>> THEN [raised |-> TRUE, value |-> 0]
    ELSE [raised |-> FALSE,
          value |-> MaxOf([i \in 1..Len(f.data) |-> f.data[i].id]) + 1]

\* The first two statements of run().
Startup ==
    /\ pc = "start"
    /\ LET r == get_next_id(file) IN
         IF r.raised
         THEN /\ pc' = "crashed"
              /\ msg' = <<"UnboundLocalError">>
              /\ UNCHANGED next_id
         ELSE /\ pc' = "menu"
              /\ next_id' = r.value
              /\ UNCHANGED msg
    /\ UNCHANGED <<tasks, previous_state, file, shown, log, viewed>>

\* ---------------------------------------------------------------- the loop
\* The selections before which run() does not copy the manager.
NoCopyChoices == {"1", "5", "6", "7", "8"}

\* copy.deepcopy(self): the task list, the id counter and, through
\* self.previous_state, every older copy.
DeepCopy(ts, nid) == [tasks |-> ts, next_id |-> nid]

\* A variant that also skips the copy before 'Mark task as complete'.
Remember_not_before_complete(choice, ps, ts, nid) ==
    IF choice \notin NoCopyChoices \cup {"3"} THEN <<DeepCopy(ts, nid)>> \o ps ELSE ps

\* run(), before the handler: self.previous_state = copy.deepcopy(self).
Remember(choice, ps, ts, nid) ==
    IF choice \notin NoCopyChoices THEN <<DeepCopy(ts, nid)>> \o ps ELSE ps

Ready == pc = "menu" /\ Len(log) < MaxSteps

LogEntry(op, id, key) ==
    [op |-> op, id |-> id, key |-> key, tasks |-> tasks, next_id |-> next_id,
     depth |-> Len(previous_state)]

Logged(op, id, key) ==
    /\ log' = Append(log, LogEntry(op, id, key))
    /\ viewed' = <<>>

\* --------------------------------------------------------------- handlers
\* Each handler is an operator from the store it finds and the user's input
\* to the store it leaves, what it printed, and whether it raised.

\* print_tasks: one row per task.  Choosing the style of a task that is not
\* complete compares its due date with datetime.today(), which is naive:
\* TypeError for an aware due date, raised before the table is printed.
print_tasks(ts) ==
    IF \E i \in 1..Len(ts) : ~ts[i].complete /\ ts[i].due_date.tzinfo.aware
    THEN [raised |-> TRUE, shown |-> <<>>]
    ELSE [raised |-> FALSE, shown |-> ts]

\* Comparing the keys of two tasks raises TypeError: for the tuples of
\* options '1' and '2' when the comparison comes down to a naive and an
\* aware due date, for any other option always (the key is None and the
\* Task objects themselves are compared).
KeyRaises(choice, a, b) ==
    IF choice = "1" THEN ~Comparable(a.due_date, b.due_date)
    ELSE IF choice = "2"
    THEN a.priority = b.priority /\ ~Comparable(a.due_date, b.due_date)
    ELSE TRUE

\* Tuple comparison of the two sort keys of view_tasks.
KeyLess(choice, a, b) ==
    IF choice = "1"
    THEN IF DateEq(a.due_date, b.due_date) THEN StrLess(a.priority, b.priority)
         ELSE DateLess(a.due_date, b.due_date)
    ELSE IF a.priority = b.priority THEN DateLess(a.due_date, b.due_date)
         ELSE StrLess(a.priority, b.priority)

RECURSIVE Insert(_, _, _)
Insert(choice, x, s) ==
    IF s = <<>> THEN [raised |-> FALSE, list |-> <<x>>]
    ELSE IF KeyRaises(choice, x, Head(s)) THEN [raised |-> TRUE, list |-> <<>>]
    ELSE IF KeyLess(choice, x, Head(s)) THEN [raised |-> FALSE, list |-> <<x>> \o s]
    ELSE LET r == Insert(choice, x, Tail(s)) IN
         [raised |-> r.raised, list |-> <<Head(s)>> \o r.list]

\* sorted(tasks, key=...): a new list, stable, or TypeError.  Whether it
\* raises does not depend on the order in which the sort compares: every
\* sort has to compare some pair that raises when there is one.
RECURSIVE sorted(_, _)
sorted(choice, ts) ==
    IF ts = <<>> THEN [raised |-> FALSE, list |-> <<>>]
    ELSE LET r == sorted(choice, SubSeq(ts, 1, Len(ts) - 1)) IN
         IF r.raised THEN r ELSE Insert(choice, ts[Len(ts)], r.list)

\* A variant of view_tasks that sorts the stored list itself (list.sort()).
view_tasks_sorts_in_place(ts, inp) ==
    IF ts = <<>>
    THEN [raised |-> FALSE, tasks |-> ts, shown |-> <<>>,
          out |-> <<"You currently have no tasks.">>]
    ELSE LET s      == IF inp.sort = "y" THEN sorted(inp.choice, ts)
                       ELSE [raised |-> FALSE, list |-> ts]
             tasks_ == IF s.raised THEN ts ELSE s.list
             p      == print_tasks(tasks_)
         IN [raised |-> p.raised, tasks |-> tasks_, shown |-> p.shown,
             out |-> (IF s.raised THEN <<"not a valid sorting option.">> ELSE <<>>)
                     \o (IF p.raised THEN <<"TypeError">> ELSE <<>>)]

\* view_tasks.  sorted() works on a copy; when it raises TypeError the
\* option is reported as invalid and the copy is printed unsorted.  With an
\* option that is neither '1' nor '2' that happens as soon as there are two
\* tasks to compare, and not for a single task.
view_tasks(ts, inp) ==
    IF ts = <<>>
    THEN [raised |-> FALSE, tasks |-> ts, shown |-> <<>>,
          out |-> <<"You currently have no tasks.">>]
    ELSE LET s      == IF inp.sort = "y" THEN sorted(inp.choice, ts)
                       ELSE [raised |-> FALSE, list |-> ts]
             tasks_ == IF s.raised THEN ts ELSE s.list
             p      == print_tasks(tasks_)
         IN [raised |-> p.raised, tasks |-> ts, shown |-> p.shown,
             out |-> (IF s.raised THEN <<"not a valid sorting option.">> ELSE <<>>)
                     \o (IF p.raised THEN <<"TypeError">> ELSE <<>>)]

\* add_task from the try that constructs the task; d is what parse did with
\* the due date.  When parse raised, the finally: break has left the loop
\* with due_date unbound, after the message if it was a ParserError and
\* silently if it was anything else, and Task(...) raises UnboundLocalError,
\* which nothing catches.  When parse returned a datetime that str() refuses,
\* Task.__init__ raises ValueError: reported, nothing added, id not advanced.
create_task(ts, nid, inp, d) ==
    IF ~d.ok
    THEN [raised |-> TRUE, tasks |-> ts, next_id |-> nid,
          out |-> (IF d.error = "ParserError" THEN <<"Date input was invalid.">> ELSE <<>>)
                  \o <<"UnboundLocalError">>]
    ELSE IF StrRaises(d.value)
    THEN [raised |-> FALSE, tasks |-> ts, next_id |-> nid,
          out |-> <<"Date input was invalid.">>]
    ELSE [raised |-> FALSE,
          tasks |-> Append(ts, Task(nid, inp.title, d.value, inp.priority, FALSE, FALSE)),
          next_id |-> nid + 1,
          out |-> <<"Task added.">>]

\* A variant of add_task that does not advance the id counter.
add_task_keeps_next_id(ts, nid, inp) ==
    [create_task(ts, nid, inp, parse(inp.due_date)) EXCEPT !.next_id = nid]

\* add_task: the due date is parsed, then the task is constructed.
add_task(ts, nid, inp) == create_task(ts, nid, inp, parse(inp.due_date))

\* The loop of complete_task and remove_task: the index of the last task
\* carrying the id, 0 when there is none.
FindTask(ts, id) ==
    IF \E i \in 1..Len(ts) : ts[i].id = id
    THEN CHOOSE i \in 1..Len(ts) :
           ts[i].id = id /\ \A j \in (i + 1)..Len(ts) : ts[j].id # id
    ELSE 0

\* complete_task.  The table is printed first.  Without a match task_ is
\* still None and the assignment to its attribute raises AttributeError.
complete_task(ts, id) ==
    LET p == print_tasks(ts)
        i == FindTask(ts, id)
    IN
    IF p.raised
    THEN [raised |-> TRUE, tasks |-> ts, shown |-> p.shown, out |-> <<"TypeError">>]
    ELSE IF i = 0
    THEN [raised |-> TRUE, tasks |-> ts, shown |-> p.shown, out |-> <<"AttributeError">>]
    ELSE [raised |-> FALSE,
          tasks |-> [ts EXCEPT ![i] = SetComplete(ts[i], TRUE)],
          shown |-> p.shown,
          out |-> <<"Task marked as complete.">>]

\* remove_task.  The table is printed first.  Without a match task_ is
\* unbound: UnboundLocalError.
remove_task(ts, id) ==
    LET p == print_tasks(ts)
        i == FindTask(ts, id)
    IN
    IF p.raised
    THEN [raised |-> TRUE, tasks |-> ts, shown |-> p.shown, out |-> <<"TypeError">>]
    ELSE IF i = 0
    THEN [raised |-> TRUE, tasks |-> ts, shown |-> p.shown, out |-> <<"UnboundLocalError">>]
    ELSE [raised |-> FALSE,
          tasks |-> SubSeq(ts, 1, i - 1) \o SubSeq(ts, i + 1, Len(ts)),
          shown |-> p.shown,
          out |-> <<"Task successfully deleted.">>]

\* A variant of save_tasks that writes only the tasks not yet flagged saved.
save_tasks_only_unsaved(ts) ==
    [tasks |-> [i \in 1..Len(ts) |-> [ts[i] EXCEPT !.saved = TRUE]],
     file |-> File([i \in 1..Len(SelectSeq(ts, LAMBDA t : ~t.saved)) |->
                      SelectSeq(ts, LAMBDA t : ~t.saved)[i].dict]),
     out |-> <<"Tasks saved to tasks.json">>]

\* save_tasks: the file becomes the cached dicts of the tasks, all flagged saved.
save_tasks(ts) ==
    [tasks |-> [i \in 1..Len(ts) |-> [ts[i] EXCEPT !.saved = TRUE]],
     file |-> File([i \in 1..Len(ts) |-> ts[i].dict]),
     out |-> <<"Tasks saved to tasks.json">>]

unsaved(ts) == SelectSeq(ts, LAMBDA t : ~t.saved)

\* for task in unsaved: task.to_json()
RECURSIVE AppendAll(_, _)
AppendAll(f, ts) ==
    IF ts = <<>> THEN f ELSE AppendAll(to_json(f, Head(ts)), Tail(ts))

\* The else branch of load_tasks: the list is cleared and refilled entry by
\* entry; an exception of parse or of Task(...) ends the run with what was
\* filled.  RefillFrom: one entry e of the file, d being what parse did with
\* its due date, and the entries after it.
RECURSIVE Refill(_, _)
RefillFrom(acc, e, d, rest) ==
    IF ~d.ok THEN [raised |-> TRUE, tasks |-> acc, out |-> <<d.error>>]
    ELSE IF StrRaises(d.value)
    THEN [raised |-> TRUE, tasks |-> acc, out |-> <<"ValueError">>]
    ELSE Refill(Append(acc, Task(e.id, e.title, d.value, e.priority, e.complete, TRUE)),
                rest)

Refill(acc, data) ==
    IF data = <<>>
    THEN [raised |-> FALSE, tasks |-> acc, out |-> <<"Tasks loaded from tasks.json">>]
    ELSE RefillFrom(acc, Head(data), parse(Head(data).due_date), Tail(data))

\* A variant of load_tasks that has cleared the list before it finds out that
\* there is no file.
load_tasks_clears_first(ts, f, answer) ==
    LET u  == unsaved(ts)
        f1 == IF u # <<>> /\ answer = "y" THEN AppendAll(f, u) ELSE f
    IN IF ~f1.exists
       THEN [raised |-> FALSE, tasks |-> <<>>, file |-> f1, out |-> <<"No tasks saved.">>]
       ELSE [file |-> f1] @@ Refill(<<>>, f1.data)

\* load_tasks; answer is what the user replies if the prompt appears.
load_tasks(ts, f, answer) ==
    LET u  == unsaved(ts)
        f1 == IF u # <<>> /\ answer = "y" THEN AppendAll(f, u) ELSE f
    IN IF ~f1.exists
       THEN [raised |-> FALSE, tasks |-> ts, file |-> f1, out |-> <<"No tasks saved.">>]
       ELSE [file |-> f1] @@ Refill(<<>>, f1.data)

\* A variant of undo that restores the list but keeps the copy it restored from.
undo_keeps_history(ts, nid, ps) ==
    IF ps = <<>>
    THEN [raised |-> TRUE, tasks |-> ts, next_id |-> nid, previous_state |-> ps,
          out |-> <<"AttributeError">>]
    ELSE [raised |-> FALSE, tasks |-> Head(ps).tasks, next_id |-> nid,
          previous_state |-> ps, out |-> <<"Undo complete.">>]

\* A variant of undo that also takes next_id from the copy it restores.
undo_restores_next_id(ts, nid, ps) ==
    IF ps = <<>>
    THEN [raised |-> TRUE, tasks |-> ts, next_id |-> nid, previous_state |-> ps,
          out |-> <<"AttributeError">>]
    ELSE [raised |-> FALSE, tasks |-> Head(ps).tasks, next_id |-> Head(ps).next_id,
          previous_state |-> Tail(ps), out |-> <<"Undo complete.">>]

\* undo.  previous_state starts as an empty list, which has no attribute
\* tasks: AttributeError.  next_id is not assigned.
undo(ts, nid, ps) ==
    IF ps = <<>>
    THEN [raised |-> TRUE, tasks |-> ts, next_id |-> nid, previous_state |-> ps,
          out |-> <<"AttributeError">>]
    ELSE [raised |-> FALSE, tasks |-> Head(ps).tasks, next_id |-> nid,
          previous_state |-> Tail(ps), out |-> <<"Undo complete.">>]

After(raised) == IF raised THEN "crashed" ELSE "menu"

\* ---------------------------------------------------------------- commands
\* One iteration of the loop of run() for each menu selection.

ViewTasks ==
    \E inp \in SortInputs :
      /\ Ready
      /\ tasks = <<>> => inp.sort = "n"
      /\ LET r == view_tasks(tasks, inp) IN
           /\ tasks' = r.tasks
           /\ shown' = r.shown
           /\ msg' = r.out
           /\ pc' = After(r.raised)
      /\ previous_state' = Remember("1", previous_state, tasks, next_id)
      /\ viewed' = <<LogEntry("view", -1, IF inp.sort = "y" THEN inp.choice ELSE "")>>
      /\ UNCHANGED <<next_id, file, log>>

AddTask ==
    \E inp \in AddInputs :
      /\ Ready
      /\ LET r == add_task(tasks, next_id, inp) IN
           /\ tasks' = r.tasks
           /\ next_id' = r.next_id
           /\ msg' = r.out
           /\ pc' = After(r.raised)
      /\ previous_state' = Remember("2", previous_state, tasks, next_id)
      /\ shown' = <<>>
      /\ Logged("add", -1, "")
      /\ UNCHANGED file

CompleteTask ==
    \E id \in IdInputs :
      /\ Ready
      /\ LET r == complete_task(tasks, id) IN
           /\ tasks' = r.tasks
           /\ shown' = r.shown
           /\ msg' = r.out
           /\ pc' = After(r.raised)
      /\ previous_state' = Remember("3", previous_state, tasks, next_id)
      /\ Logged("complete", id, "")
      /\ UNCHANGED <<next_id, file>>

RemoveTask ==
    \E id \in IdInputs :
      /\ Ready
      /\ LET r == remove_task(tasks, id) IN
           /\ tasks' = r.tasks
           /\ shown' = r.shown
           /\ msg' = r.out
           /\ pc' = After(r.raised)
      /\ previous_state' = Remember("4", previous_state, tasks, next_id)
      /\ Logged("remove", id, "")
      /\ UNCHANGED <<next_id, file>>

SaveTasks ==
    /\ Ready
    /\ LET r == save_tasks(tasks) IN
         /\ tasks' = r.tasks
         /\ file' = r.file
         /\ msg' = r.out
    /\ previous_state' = Remember("5", previous_state, tasks, next_id)
    /\ shown' = <<>>
    /\ Logged("save", -1, "")
    /\ UNCHANGED <<pc, next_id>>

LoadTasks ==
    \E answer \in Answers :
      /\ Ready
      /\ unsaved(tasks) = <<>> => answer = "n"
      /\ LET r == load_tasks(tasks, file, answer) IN
           /\ tasks' = r.tasks
           /\ file' = r.file
           /\ msg' = r.out
           /\ pc' = After(r.raised)
      /\ previous_state' = Remember("6", previous_state, tasks, next_id)
      /\ shown' = <<>>
      /\ Logged("load", -1, IF unsaved(tasks) = <<>> THEN "" ELSE answer)
      /\ UNCHANGED next_id

Undo ==
    /\ Ready
    /\ LET r == undo(tasks, next_id, Remember("7", previous_state, tasks, next_id)) IN
         /\ tasks' = r.tasks
         /\ next_id' = r.next_id
         /\ previous_state' = r.previous_state
         /\ msg' = r.out
         /\ pc' = After(r.raised)
    /\ shown' = <<>>
    /\ Logged("undo", -1, "")
    /\ UNCHANGED file

Exit ==
    /\ Ready
    /\ pc' = "exited"
    /\ previous_state' = Remember("8", previous_state, tasks, next_id)
    /\ msg' = <<>>
    /\ shown' = <<>>
    /\ Logged("exit", -1, "")
    /\ UNCHANGED <<tasks, next_id, file>>

\* A selection that is not on the menu: choices.get returns None.
InvalidChoice ==
    \E choice \in InvalidChoices :
      /\ Ready
      /\ previous_state' = Remember(choice, previous_state, tasks, next_id)
      /\ msg' = <<"That is not a valid choice.">>
      /\ shown' = <<>>
      /\ Logged("invalid", -1, choice)
      /\ UNCHANGED <<pc, tasks, next_id, file>>

Next ==
    \/ Startup
    \/ ViewTasks
    \/ AddTask
    \/ CompleteTask
    \/ RemoveTask
    \/ SaveTasks
    \/ LoadTasks
    \/ Undo
    \/ Exit
    \/ InvalidChoice

Spec == Init /\ [][Next]_vars

\* ------------------------------------------------------------ vocabulary
\* The five fields the snapshot format carries, read from the live fields.
Core(t) ==
    [id |-> t.id, title |-> t.title, due_date |-> t.due_date,
     priority |-> t.priority, complete |-> t.complete]

Cores(ts) == [i \in 1..Len(ts) |-> Core(ts[i])]

Mutating == {"add", "complete", "remove"}

NSel == Len(log)

\* The last and the last-but-one logged selection.
Last == log[NSel]

Prev == log[NSel - 1]

\* The last selection returned to the menu (it did not raise, and was not Quit).
Returned == pc = "menu"

\* The task list the i-th logged selection left behind.
TasksAfter(i) == IF i < NSel THEN log[i + 1].tasks ELSE tasks

\* The i-th logged selection is an AddTask that appended a task.
Added(i) == log[i].op = "add" /\ Len(TasksAfter(i)) = Len(log[i].tasks) + 1

AssignedId(i) == TasksAfter(i)[Len(TasksAfter(i))].id

\* The i-th logged selection is a mutating command that succeeded: it
\* returned to the menu and was not an AddTask that added nothing.
Succeeded(i) ==
    /\ log[i].op \in Mutating
    /\ i < NSel \/ Returned
    /\ log[i].op = "add" => Added(i)

\* ------------------------------------------------------------------ claims

\* C1: no two tasks of the in-memory list carry the same id.
C1_UniqueIds ==
    \A i, j \in 1..Len(tasks) : i # j => tasks[i].id # tasks[j].id

\* C2: the ids AddTask assigns within a run are strictly increasing in
\* assignment order (hence pairwise distinct), and no AddTask assigns an id
\* that an earlier RemoveTask removed.
C2_IdsIncrease ==
    /\ \A i, j \in 1..NSel :
         (i < j /\ Added(i) /\ Added(j)) => AssignedId(i) < AssignedId(j)
    /\ \A i, j \in 1..NSel :
         (i < j /\ log[i].op = "remove" /\ Added(j)) => AssignedId(j) # log[i].id

C2_Witness ==
    /\ NSel >= 3 /\ Returned
    /\ log[NSel - 2].op = "add" /\ Prev.op = "remove" /\ Last.op = "add"
    /\ Prev.id = AssignedId(NSel - 2)

\* C3: SaveTasks followed by LoadTasks, with nothing but views in between,
\* leaves the list with the same tasks in the same order, each equal to the
\* task before the save in id, title, due_date, priority and complete.
C3_RoundTrip ==
    (NSel >= 2 /\ Prev.op = "save" /\ Last.op = "load" /\ pc # "crashed")
        => Cores(tasks) = Cores(Prev.tasks)

C3_Witness ==
    /\ NSel >= 2 /\ Prev.op = "save" /\ Last.op = "load" /\ Returned
    /\ Len(tasks) >= 2
    /\ \E i \in 1..Len(tasks) : tasks[i].complete
    /\ \E i \in 1..Len(tasks) : tasks[i].due_date.hour # 0

\* C4: a mutating command that succeeded (AddTask, CompleteTask, RemoveTask)
\* followed by Undo leaves the list exactly as it was before that command.
C4_UndoRestoresTasks ==
    (NSel >= 2 /\ Succeeded(NSel - 1) /\ Last.op = "undo")
        => (Returned /\ tasks = Prev.tasks)

C4_Witness ==
    /\ NSel >= 2 /\ Prev.op = "complete" /\ Last.op = "undo" /\ Returned
    /\ FindTask(tasks, Prev.id) # 0
    /\ ~tasks[FindTask(tasks, Prev.id)].complete

\* C5: AddTask followed by Undo leaves next_id at its value before the AddTask.
C5_UndoRestoresNextId ==
    (NSel >= 2 /\ Prev.op = "add" /\ Last.op = "undo" /\ Returned)
        => next_id = Prev.next_id

\* C6: Undo with an empty history reports that there is nothing to undo,
\* leaves tasks and next_id as they were, and the loop goes on.
C6_UndoOnEmptyHistory ==
    (NSel >= 1 /\ Last.op = "undo" /\ Last.depth = 0)
        => (Returned /\ tasks = Last.tasks /\ next_id = Last.next_id)

\* The number of Undo selections that end the log up to entry n.
RECURSIVE TrailingUndos(_)
TrailingUndos(n) ==
    IF n >= 1 /\ log[n].op = "undo" THEN 1 + TrailingUndos(n - 1) ELSE 0

UndoRun == TrailingUndos(NSel)

\* The selections before the final run of Undos, and the mutating ones among them.
BeforeUndos == NSel - UndoRun

MutatingBeforeUndos ==
    SelectSeq([i \in 1..BeforeUndos |-> i], LAMBDA i : log[i].op \in Mutating)

\* Before the final run of Undos there were only mutating commands that
\* succeeded, saves, loads and views.
OnlyCommandsBeforeUndos ==
    \A i \in 1..BeforeUndos : Succeeded(i) \/ log[i].op \in {"save", "load"}

\* C7: after n mutating commands, possibly interleaved with views, saves and
\* loads, k consecutive Undos (1 <= k <= n) leave the list as it was just
\* before the (n-k+1)-th mutating command.
C7_UndoPopsOneLevel ==
    LET n == Len(MutatingBeforeUndos)
        k == UndoRun
    IN (OnlyCommandsBeforeUndos /\ 1 <= k /\ k <= n)
         => (Returned /\ tasks = log[MutatingBeforeUndos[n - k + 1]].tasks)

C7_Witness ==
    /\ OnlyCommandsBeforeUndos /\ Returned
    /\ UndoRun >= 2 /\ UndoRun <= Len(MutatingBeforeUndos)
    /\ \E i, j \in 1..BeforeUndos :
         i < j /\ log[i].op \in {"save", "load"} /\ log[j].op \in Mutating

\* Task.dict as it would be if computed from the live fields.
ToSerializable(t) ==
    [id |-> t.id, title |-> t.title, due_date |-> str_datetime(t.due_date),
     priority |-> t.priority, complete |-> t.complete]

\* C8: every in-memory task flagged saved has an entry in tasks.json with its
\* id and its current title, due_date, priority and complete.
C8_SavedMeansOnDisk ==
    \A i \in 1..Len(tasks) :
      tasks[i].saved =>
        (file.exists /\ \E j \in 1..Len(file.data) : file.data[j] = ToSerializable(tasks[i]))

\* C9: ViewTasks, whatever the sort choice, leaves tasks, next_id, the history
\* and tasks.json unchanged, and an unsorted view that follows a sorted one
\* shows the order the list had before the sort.
C9_ViewIsPure ==
    [][viewed' # <<>> =>
         /\ tasks' = tasks
         /\ next_id' = next_id
         /\ previous_state' = previous_state
         /\ file' = file
         /\ (viewed # <<>> /\ viewed[1].key # "" /\ viewed'[1].key = "")
              => shown' = viewed[1].tasks]_vars

C9_Witness ==
    /\ viewed # <<>> /\ viewed[1].key = "1"
    /\ Len(tasks) >= 2
    /\ shown # tasks
    /\ tasks = viewed[1].tasks

\* C10: CompleteTask with an id no task carries reports an error, leaves
\* tasks and next_id unchanged, and the loop goes on.
C10_CompleteUnknownId ==
    (NSel >= 1 /\ Last.op = "complete" /\ FindTask(Last.tasks, Last.id) = 0)
        => (Returned /\ tasks = Last.tasks /\ next_id = Last.next_id)

\* C11: RemoveTask with an id no task carries reports an error, removes
\* nothing, leaves next_id unchanged, and the loop goes on.
C11_RemoveUnknownId ==
    (NSel >= 1 /\ Last.op = "remove" /\ FindTask(Last.tasks, Last.id) = 0)
        => (Returned /\ tasks = Last.tasks /\ next_id = Last.next_id)

\* The last selection was an AddTask that reported its date input as invalid.
DateRejected ==
    NSel >= 1 /\ Last.op = "add" /\ msg # <<>> /\ msg[1] = "Date input was invalid."

\* C12: AddTask with a due date the parser rejects reports invalid input,
\* appends nothing, leaves tasks and next_id unchanged, and the loop goes on.
C12_AddRejectedDate ==
    DateRejected => (Returned /\ tasks = Last.tasks /\ next_id = Last.next_id)

\* The value next_id should have after start-up, given tasks.json.
RecoveredId(f) ==
    IF f.exists /\ f.data # <<>>
    THEN 1 + MaxOf([i \in 1..Len(f.data) |-> f.data[i].id])
    ELSE 0

\* C13: start-up sets next_id to 1 + the largest id in tasks.json, or to 0
\* when the file is absent or holds an empty array, and never raises.
C13_StartupRecoversId ==
    (pc # "start" /\ NSel = 0) => (pc = "menu" /\ next_id = RecoveredId(file))

\* ------------------------------------------------- the handlers called directly
\* A TaskManager() whose handlers are called one after the other without
\* run(): no start-up id recovery and no deep copies, in a directory that
\* holds no tasks.json.
InitDirect ==
    /\ pc = "menu"
    /\ tasks = <<>>
    /\ next_id = 0
    /\ previous_state = <<>>
    /\ file = NoFile
    /\ msg = <<>>
    /\ shown = <<>>
    /\ log = <<>>
    /\ viewed = <<>>

DirectAddTask ==
    \E inp \in DirectAddInputs :
      /\ Ready
      /\ LET r == add_task(tasks, next_id, inp) IN
           /\ tasks' = r.tasks
           /\ next_id' = r.next_id
           /\ msg' = r.out
           /\ pc' = After(r.raised)
      /\ shown' = <<>>
      /\ Logged("add", -1, "")
      /\ UNCHANGED <<previous_state, file>>

DirectCompleteTask ==
    \E id \in IdInputs :
      /\ Ready
      /\ LET r == complete_task(tasks, id) IN
           /\ tasks' = r.tasks
           /\ shown' = r.shown
           /\ msg' = r.out
           /\ pc' = After(r.raised)
      /\ Logged("complete", id, "")
      /\ UNCHANGED <<next_id, previous_state, file>>

DirectSaveTasks ==
    /\ Ready
    /\ LET r == save_tasks(tasks) IN
         /\ tasks' = r.tasks
         /\ file' = r.file
         /\ msg' = r.out
    /\ shown' = <<>>
    /\ Logged("save", -1, "")
    /\ UNCHANGED <<pc, next_id, previous_state>>

DirectLoadTasks ==
    \E answer \in Answers :
      /\ Ready
      /\ unsaved(tasks) = <<>> => answer = "n"
      /\ LET r == load_tasks(tasks, file, answer) IN
           /\ tasks' = r.tasks
           /\ file' = r.file
           /\ msg' = r.out
           /\ pc' = After(r.raised)
      /\ shown' = <<>>
      /\ Logged("load", -1, IF unsaved(tasks) = <<>> THEN "" ELSE answer)
      /\ UNCHANGED <<next_id, previous_state>>

NextDirect ==
    \/ DirectAddTask
    \/ DirectCompleteTask
    \/ DirectSaveTasks
    \/ DirectLoadTasks

SpecDirect == InitDirect /\ [][NextDirect]_vars

\* This step is a LoadTasks, answered with `answer` where the prompt appeared
\* ("" where it did not).
LoadStep(answer) ==
    /\ Len(log') = Len(log) + 1
    /\ log'[Len(log')].op = "load"
    /\ log'[Len(log')].key = answer

\* C14 as stated: LoadTasks while there is no tasks.json reports that no tasks
\* are saved and leaves the list untouched, whatever the user answers.
C14_LoadWithoutFile ==
    [][(~file.exists /\ \E a \in {"", "y", "n"} : LoadStep(a))
          => (tasks' = tasks /\ msg' = <<"No tasks saved.">> /\ pc' = "menu")]_vars

\* C14 as amended: that holds when the prompt does not appear or is declined;
\* when the user confirms, the unsaved tasks are written to a new tasks.json
\* and read back, the same tasks in the same order, now flagged saved.
C14_LoadWithoutFileAmended ==
    [][~file.exists =>
         /\ (LoadStep("") \/ LoadStep("n"))
              => (tasks' = tasks /\ ~file'.exists /\ msg' = <<"No tasks saved.">>
                  /\ pc' = "menu")
         /\ LoadStep("y")
              => (/\ file' = File([i \in 1..Len(tasks) |-> ToSerializable(tasks[i])])
                  /\ Cores(tasks') = Cores(tasks)
                  /\ \A i \in 1..Len(tasks') : tasks'[i].saved
                  /\ msg' = <<"Tasks loaded from tasks.json">>
                  /\ pc' = "menu")]_vars

\* A non-empty list met no tasks.json and the user declined to save first.
C14_Witness ==
    /\ NSel >= 1 /\ Last.op = "load" /\ Last.key = "n"
    /\ ~file.exists
    /\ Len(tasks) >= 2
    /\ \E i \in 1..Len(tasks) : tasks[i].complete
    /\ msg = <<"No tasks saved.">>

\* C15: after SaveTasks, tasks.json holds exactly the serializations of the
\* tasks of the list, in stored order, every task is flagged saved, and the
\* list is otherwise as it was before the save.
C15_SaveOverwrites ==
    (NSel >= 1 /\ Last.op = "save")
        => /\ Returned
           /\ file = File([i \in 1..Len(tasks) |-> ToSerializable(tasks[i])])
           /\ \A i \in 1..Len(tasks) : tasks[i].saved
           /\ Cores(tasks) = Cores(Last.tasks)

\* A save that flagged a task not yet saved and left nothing of the entry
\* (id 0) the file held when the program started.
C15_Witness ==
    /\ NSel >= 1 /\ Last.op = "save" /\ Returned
    /\ Len(tasks) >= 1
    /\ \E i \in 1..Len(Last.tasks) : ~Last.tasks[i].saved
    /\ \A j \in 1..Len(file.data) : file.data[j].id # 0

\* Every task held in the list or in a copy of the history.
HeldTasks ==
    {tasks[i] : i \in 1..Len(tasks)}
      \cup UNION {{previous_state[k].tasks[i] : i \in 1..Len(previous_state[k].tasks)} :
                    k \in 1..Len(previous_state)}

\* C16: the cached dict of every task in the list and in every history copy
\* agrees with the task's fields in id, title, due_date, priority and complete.
C16_DictIsCurrent ==
    \A t \in HeldTasks : t.dict = ToSerializable(t)

\* A completed task in the list beside an uncompleted copy of it in the history.
C16_Witness ==
    /\ \E i \in 1..Len(tasks) : tasks[i].complete /\ ~tasks[i].saved
    /\ \E k \in 1..Len(previous_state) : \E i \in 1..Len(previous_state[k].tasks) :
         ~previous_state[k].tasks[i].complete
    /\ NSel >= 1 /\ Last.op = "undo"

\* The cached dicts of the tasks of ts.
Dicts(ts) == [i \in 1..Len(ts) |-> ts[i].dict]

\* C17: when LoadTasks finds unsaved tasks and the user confirms, the file that
\* is loaded is the previous file, all its entries kept in order, followed by
\* the unsaved tasks in stored order and by nothing else; the list then holds
\* that file's entries, each flagged saved.
C17_LoadAppendsUnsaved ==
    [][LoadStep("y") =>
         /\ pc' = "menu"
         /\ file'.exists
         /\ file'.data = (IF file.exists THEN file.data ELSE <<>>)
                           \o Dicts(SelectSeq(tasks, LAMBDA t : ~t.saved))
         /\ [i \in 1..Len(tasks') |-> ToSerializable(tasks'[i])] = file'.data
         /\ \A i \in 1..Len(tasks') : tasks'[i].saved]_vars

\* A confirmed load that met a list holding a saved and an unsaved task and a
\* file with entries of its own.
C17_Witness ==
    /\ NSel >= 1 /\ Last.op = "load" /\ Last.key = "y" /\ Returned
    /\ \E i \in 1..Len(Last.tasks) : Last.tasks[i].saved
    /\ \E i \in 1..Len(Last.tasks) : ~Last.tasks[i].saved
    /\ Len(file.data) > Len(unsaved(Last.tasks))
    /\ Len(tasks) = Len(file.data)

\* C18: ViewTasks with sorting requested and a sort key that does not exist,
\* on a non-empty list (a single task included), shows the tasks in stored
\* order and reports the key as invalid.
C18_UnknownSortKey ==
    (viewed # <<>> /\ viewed[1].key \notin {"", "1", "2"} /\ viewed[1].tasks # <<>>)
        => (shown = viewed[1].tasks /\ msg = <<"not a valid sorting option.">>)

\* C19: AddTask, then a selection that is not on the menu, then Undo leaves
\* the list as it was before the AddTask.
C19_UndoAfterInvalidChoice ==
    (NSel >= 3 /\ log[NSel - 2].op = "add" /\ Prev.op = "invalid" /\ Last.op = "undo")
        => (Returned /\ tasks = log[NSel - 2].tasks)

\* Every id carried by a task of the list, of a history copy, or of tasks.json.
IdsInUse ==
    {t.id : t \in HeldTasks} \cup {file.data[j].id : j \in 1..Len(file.data)}

\* C20: once the run has started, every id in the list, in the history and in
\* tasks.json is below next_id, and next_id has never decreased from one
\* selection to the next; so AddTask assigns an id that is carried nowhere.
C20_IdsBelowNextId ==
    (pc \in {"menu", "exited"} \/ NSel >= 1)
        => /\ \A id \in IdsInUse : id < next_id
           /\ \A i \in 1..NSel :
                log[i].next_id <= (IF i < NSel THEN log[i + 1].next_id ELSE next_id)

\* An AddTask after an Undo and a save: the id it assigned is new everywhere.
C20_Witness ==
    /\ NSel >= 3 /\ Returned
    /\ Last.op = "add"
    /\ \E i \in 1..(NSel - 1) : log[i].op = "undo"
    /\ \E i \in 1..(NSel - 1) : log[i].op = "save"
    /\ next_id = Last.next_id + 1
    /\ tasks[Len(tasks)].id = Last.next_id

====
